---- MODULE Spec2Model ----
(***************************************************************************)
(* Model of the DAG engine: the Graph (node registry, adjacency matrix,    *)
(* cycle and IO checks, root list, per-(node,batch) port storage) and the  *)
(* Executor (task queue, worker threads, executeNode, updateDependencies). *)
(* Vectors are functions over 0..size-1, as the C++ indices are.           *)
(***************************************************************************)
EXTENDS Integers, Sequences, FiniteSets, TLC

\* ------------------------------------------------------------------ bounds
\* largest number of nodes addNode is called for
MaxNodes == 3

\* calls the client threads make on the queue, in total
MaxCalls == 4

\* largest number of worker threads run() starts
NumWorkers == 2

\* the cells a slot of the store is let grow to
MaxCells == 4

\* ------------------------------------------------------- vector operations
\* std::vector<T>::size
Size(v) == Cardinality(DOMAIN v)

\* an empty std::vector
EmptyVec == [i \in {} |-> FALSE]

\* std::vector<T>::push_back
PushBack(v, x) == [i \in 0..Size(v) |-> IF i < Size(v) THEN v[i] ELSE x]

\* std::vector<T>(n, x)
Filled(n, x) == [i \in 0..(n - 1) |-> x]

\* std::vector<T>::resize(n, x)
Resize(v, n, x) == [i \in 0..(n - 1) |-> IF i < Size(v) THEN v[i] ELSE x]

\* the elements of a vector
Range(v) == {v[i] : i \in DOMAIN v}

\* ------------------------------------------------------------- graph nodes
\* A GraphNode: the key sets of its two std::map port maps and its body.
\* The cells the in-node maps hold during a run are executor state below.
GraphNode(ins, outs, body) == [inputs |-> ins, outputs |-> outs, body |-> body]

\* two nodes of the cycle-rejection program
nodeA == GraphNode({"dataC"}, {"dataA"}, "none")
nodeB == GraphNode({"dataA"}, {"dataB"}, "none")

\* nodeC of that program with its output name declared as an input too: it
\* accepts an edge from nodeB, feeds nodeA, and its ports match themselves
relayNode == GraphNode({"dataB", "dataC"}, {"dataC"}, "none")

\* the two nodes of the multiply/divide pipeline program
multiplyNode == GraphNode({"multiplyin"}, {"multiplyout"}, "multiply")
divideNode == GraphNode({"multiplyout"}, {"divideout"}, "divide")

\* a second producer of "multiplyout" and a consumer of "divideout"
tripleNode == GraphNode({"multiplyin"}, {"multiplyout"}, "triple")
forwardNode == GraphNode({"divideout"}, {"forwardout"}, "forward")

\* a node that declares one name, "multiplyout", as its input and its output
rescaleNode == GraphNode({"multiplyout"}, {"multiplyout"}, "rescale")

\* a producer with two outputs, one named like divideNode's output
splitNode == GraphNode({"multiplyin"}, {"multiplyout", "divideout"}, "split")

\* the nodes a client passes to addNode while building a graph
NodeKinds == {nodeA, nodeB, relayNode}

VARIABLES
    nodes,          \* Graph::nodes
    adjacencyList,  \* Graph::adjacencyList, adjacencyList[from][to]
    rootNodes,      \* Graph::rootNodes
    batchData,      \* Graph::batchData, batchData[nodeId][batchId][fieldName]
    call,           \* the last Graph call: its arguments, result and pre-state
    oob,            \* the containers the last call indexed out of bounds
    aborted,        \* the process has faulted
    m_inputBatches, \* Executor::m_inputBatches, m_inputBatches[batchId][name]
    m_taskQueue,    \* Executor::m_taskQueue, pairs <<nodeId, batchId>>
    phase,          \* "build", "constructed", "running" or "returned"
    worker,         \* per worker thread: its position and locals
    nodeInputs,     \* GraphNode::inputs of every node of the graph
    nodeOutputs,    \* GraphNode::outputs of every node of the graph
    execCount,      \* per task: how often executeNode has been entered
    published,      \* the tasks whose updateDependencies has returned
    caller,         \* per client thread of a ThreadSafeQueue: its call in progress
    m_mutex,        \* ThreadSafeQueue::m_mutex: the thread holding it, 0 if free
    m_cond,         \* ThreadSafeQueue::m_cond: the threads blocked in wait()
    pushLog,        \* the values pushed, in the order the pushes ran
    popLog,         \* the values popped, in the order the pops ran
    calls           \* the queue calls made so far

graphVars == <<nodes, adjacencyList, rootNodes>>
execVars == <<m_inputBatches, m_taskQueue, phase, worker, nodeInputs,
              nodeOutputs, execCount, published>>
queueVars == <<caller, m_mutex, m_cond, pushLog, popLog, calls>>
vars == <<nodes, adjacencyList, rootNodes, batchData, call, oob, aborted,
          m_inputBatches, m_taskQueue, phase, worker, nodeInputs,
          nodeOutputs, execCount, published, caller, m_mutex, m_cond,
          pushLog, popLog, calls>>

\* ------------------------------------------------------------ Graph (pure)
\* Graph::isRoot with every row read at column nodeIndex replaced by the
\* row nodeIndex read at every column (a transposed test)
isRoot_Transposed(adj, nodeIndex) == \A k \in DOMAIN adj : ~adj[nodeIndex][k]

\* Graph::isRoot: no row has a true entry in column nodeIndex
isRoot(adj, nodeIndex) == \A row \in DOMAIN adj : ~adj[row][nodeIndex]

RECURSIVE updateRootsFrom(_, _, _, _)
updateRootsFrom(adj, n, i, acc) ==
    IF i >= n THEN acc
    ELSE updateRootsFrom(adj, n, i + 1,
                         IF isRoot(adj, i) THEN PushBack(acc, i) ELSE acc)

\* Graph::updateRoots: clear, then push every root in ascending index order
updateRoots(adj, n) == updateRootsFrom(adj, n, 0, EmptyVec)

\* Graph::matchingIO that accepts every pair
matchingIO_Always(ns, from, to) == TRUE

\* Graph::matchingIO with the two nodes exchanged
matchingIO_Reversed(ns, from, to) ==
    \E output \in ns[to].outputs : output \in ns[from].inputs

\* Graph::matchingIO: some output name of `from` is an input name of `to`
matchingIO(ns, from, to) == \E output \in ns[from].outputs : output \in ns[to].inputs

\* Graph::dfs, the recursion and the loop over the neighbours i of current.
\* The result is the return value with visited and recStack as left behind.
RECURSIVE dfs(_, _, _, _, _)
RECURSIVE dfsLoop(_, _, _, _, _, _)
\* the loop body after the recursive call on an unvisited neighbour i
\* returned r: return true if it found a cycle or left i on the stack
dfsVisited(adj, n, current, i, r) ==
    IF r.found \/ r.recStack[i]
    THEN [r EXCEPT !.found = TRUE]
    ELSE dfsLoop(adj, n, current, i + 1, r.visited, r.recStack)

dfsLoop(adj, n, current, i, visited, recStack) ==
    IF i >= n
    THEN [found |-> FALSE, visited |-> visited,
          recStack |-> [recStack EXCEPT ![current] = FALSE]]
    ELSE IF adj[current][i]
         THEN IF ~visited[i]
              THEN dfsVisited(adj, n, current, i, dfs(adj, n, i, visited, recStack))
              ELSE IF recStack[i]
                   THEN [found |-> TRUE, visited |-> visited, recStack |-> recStack]
                   ELSE dfsLoop(adj, n, current, i + 1, visited, recStack)
         ELSE dfsLoop(adj, n, current, i + 1, visited, recStack)

dfs(adj, n, current, visited, recStack) ==
    IF ~visited[current]
    THEN dfsLoop(adj, n, current, 0,
                 [visited EXCEPT ![current] = TRUE],
                 [recStack EXCEPT ![current] = TRUE])
    ELSE [found |-> FALSE, visited |-> visited,
          recStack |-> [recStack EXCEPT ![current] = FALSE]]

RECURSIVE hasCycleFrom(_, _, _, _, _)
\* Graph::hasCycle's loop after dfs(i) returned r
hasCycleNext(adj, n, i, r) ==
    r.found \/ hasCycleFrom(adj, n, i + 1, r.visited, r.recStack)

hasCycleFrom(adj, n, i, visited, recStack) ==
    IF i >= n THEN FALSE
    ELSE IF ~visited[i]
         THEN hasCycleNext(adj, n, i, dfs(adj, n, i, visited, recStack))
         ELSE hasCycleFrom(adj, n, i + 1, visited, recStack)

\* Graph::hasCycle with a dfs that skips the neighbour i = current
hasCycle_IgnoreSelf(adj, n) ==
    LET offDiagonal == [i \in DOMAIN adj |->
                          [j \in DOMAIN adj[i] |-> adj[i][j] /\ i # j]]
    IN  hasCycleFrom(offDiagonal, n, 0, Filled(n, FALSE), Filled(n, FALSE))

\* Graph::hasCycle that starts the search at node 0 only
hasCycle_FromFirst(adj, n) ==
    n > 0 /\ dfs(adj, n, 0, Filled(n, FALSE), Filled(n, FALSE)).found

\* Graph::hasCycle
hasCycle(adj, n) == hasCycleFrom(adj, n, 0, Filled(n, FALSE), Filled(n, FALSE))

\* Graph::createsCycle that reports no cycle for any edge
createsCycle_Never(adj, n, from, to) ==
    [flag |-> FALSE, adjacencyList |-> [adj EXCEPT ![from][to] = FALSE]]

\* Graph::createsCycle that leaves the tentative edge in the matrix
createsCycle_NoRollback(adj, n, from, to) ==
    LET tentative == [adj EXCEPT ![from][to] = TRUE]
    IN  [flag |-> hasCycle(tentative, n), adjacencyList |-> tentative]

\* Graph::createsCycle: set the entry, run hasCycle, clear the entry.
\* The result is the flag with the matrix as the call leaves it.
createsCycle(adj, n, from, to) ==
    LET tentative == [adj EXCEPT ![from][to] = TRUE]
    IN  [flag |-> hasCycle(tentative, n),
         adjacencyList |-> [tentative EXCEPT ![from][to] = FALSE]]

\* Graph::edgeExists that only tests the range of the ids
edgeExists_Always(ns, adj, from, to) == from < Size(ns) /\ to < Size(ns)

\* Graph::edgeExists
edgeExists(ns, adj, from, to) ==
    from < Size(ns) /\ to < Size(ns) /\ adj[from][to]

\* Graph::addNode's matrix update: push a row of nodeId + 1 entries, then
\* resize every row to the new node count
addNodeAdjacency(adj, nodeId) ==
    LET pushed == PushBack(adj, Filled(nodeId + 1, FALSE))
    IN  [row \in DOMAIN pushed |-> Resize(pushed[row], nodeId + 1, FALSE)]

\* Graph::addNode's batchData update: every existing per-node vector gets one
\* more (empty) map pushed at its end
addNodeBatchData(bd) ==
    [nodeId \in DOMAIN bd |-> PushBack(bd[nodeId], [f \in {} |-> <<>>])]

\* Graph::addEdge after its first createsCycle call returned c1: the edge is
\* recorded and the roots recomputed, or createsCycle runs a second time on
\* the rejection path
addEdgeTested(ns, roots, from, to, c1) ==
    IF ~c1.flag /\ matchingIO(ns, from, to)
    THEN [ret |-> TRUE,
          adjacencyList |-> [c1.adjacencyList EXCEPT ![from][to] = TRUE],
          rootNodes |-> updateRoots([c1.adjacencyList EXCEPT ![from][to] = TRUE],
                                    Size(ns))]
    ELSE [ret |-> FALSE,
          adjacencyList |-> createsCycle(c1.adjacencyList, Size(ns), from, to).adjacencyList,
          rootNodes |-> roots]

\* Graph::addEdge for in-range ids
addEdge(ns, adj, roots, from, to) ==
    addEdgeTested(ns, roots, from, to, createsCycle(adj, Size(ns), from, to))

\* ----------------------------------------------------------- Graph actions
\* the state a call started from
PreState == [nodes |-> nodes, adjacencyList |-> adjacencyList,
             rootNodes |-> rootNodes, batchData |-> batchData]

NoCall == [op |-> "none", from |-> 0, to |-> 0, ret |-> FALSE,
           pre |-> [nodes |-> EmptyVec, adjacencyList |-> EmptyVec,
                    rootNodes |-> EmptyVec, batchData |-> EmptyVec]]

\* the worker threads, and a thread that has not been started
Workers == 1..NumWorkers
NoTask == <<0, 0>>
Idle == [pc |-> "idle", task |-> NoTask, field |-> "", i |-> 0, out |-> "",
         inCells |-> 0, outCells |-> <<>>]

\* no Executor exists
NoExecutor ==
    /\ m_inputBatches = EmptyVec
    /\ m_taskQueue = <<>>
    /\ phase = "build"
    /\ worker = [w \in Workers |-> Idle]
    /\ nodeInputs = EmptyVec
    /\ nodeOutputs = EmptyVec
    /\ execCount = EmptyVec
    /\ published = {}

\* the client threads of a ThreadSafeQueue, and one that is in no call
Callers == {1, 2, 3}
NoCaller == [pc |-> "idle", op |-> "none", value |-> 0, waited |-> FALSE]

\* ThreadSafeQueue::ThreadSafeQueue, no call made on it
NoQueueCalls ==
    /\ caller = [t \in Callers |-> NoCaller]
    /\ m_mutex = 0
    /\ m_cond = {}
    /\ pushLog = <<>>
    /\ popLog = <<>>
    /\ calls = 0

\* Graph::Graph
InitGraph ==
    /\ nodes = EmptyVec
    /\ adjacencyList = EmptyVec
    /\ rootNodes = EmptyVec
    /\ batchData = EmptyVec

Init ==
    /\ InitGraph
    /\ call = NoCall
    /\ oob = {}
    /\ aborted = FALSE
    /\ NoExecutor
    /\ NoQueueCalls

\* Graph::addNode
AddNode ==
    /\ ~aborted
    /\ Size(nodes) < MaxNodes
    /\ \E node \in NodeKinds :
         LET nodeId == Size(nodes)
             adj == addNodeAdjacency(adjacencyList, nodeId)
         IN  /\ nodes' = PushBack(nodes, node)
             /\ adjacencyList' = adj
             /\ batchData' = addNodeBatchData(batchData)
             /\ rootNodes' = updateRoots(adj, nodeId + 1)
             /\ call' = [op |-> "addNode", from |-> nodeId, to |-> nodeId,
                         ret |-> TRUE, pre |-> PreState]
    /\ oob' = {}
    /\ UNCHANGED <<aborted, execVars, queueVars>>

\* Graph::addEdge, both ids in range
AddEdge ==
    /\ ~aborted
    /\ \E from \in DOMAIN nodes, to \in DOMAIN nodes :
         \E r \in {addEdge(nodes, adjacencyList, rootNodes, from, to)} :
             /\ adjacencyList' = r.adjacencyList
             /\ rootNodes' = r.rootNodes
             /\ call' = [op |-> "addEdge", from |-> from, to |-> to,
                         ret |-> r.ret, pre |-> PreState]
    /\ oob' = {}
    /\ UNCHANGED <<nodes, batchData, aborted, execVars, queueVars>>

Next == AddNode \/ AddEdge

Spec == Init /\ [][Next]_vars

\* Graph::addEdge with from >= size() or to >= size(). The first condition
\* fails on the range tests; the rejection path then calls createsCycle and
\* matchingIO with the ids as given: adjacencyList[from][to] is written and
\* nodes[from], nodes[to] are read out of bounds. What the build does with
\* the stray write is not defined: it lands outside the matrix, it faults,
\* or it lands on (and finally clears) a bit of the matrix.
AddEdgeOutOfRange ==
    /\ ~aborted
    /\ \E from \in 0..Size(nodes), to \in 0..Size(nodes) :
         /\ from >= Size(nodes) \/ to >= Size(nodes)
         /\ call' = [op |-> "addEdge", from |-> from, to |-> to,
                     ret |-> FALSE, pre |-> PreState]
    /\ oob' = {"adjacencyList", "nodes"}
    /\ \/ UNCHANGED <<adjacencyList, aborted>>
       \/ aborted' = TRUE /\ UNCHANGED adjacencyList
       \/ /\ \E i \in DOMAIN nodes, j \in DOMAIN nodes :
                adjacencyList' = [adjacencyList EXCEPT ![i][j] = FALSE]
          /\ UNCHANGED aborted
    /\ UNCHANGED <<nodes, rootNodes, batchData, execVars, queueVars>>

NextAnyIndex == AddNode \/ AddEdge \/ AddEdgeOutOfRange

\* the Graph driven with in-range and out-of-range ids
SpecAnyIndex == Init /\ [][NextAnyIndex]_vars

\* a Graph object holding any matrix over up to MaxNodes nodes, the input of
\* hasCycle; the root list is the one updateRoots computes for the matrix
InitMatrix ==
    /\ \E n \in 0..MaxNodes :
         /\ nodes = Filled(n, nodeA)
         /\ adjacencyList \in [0..(n - 1) -> [0..(n - 1) -> BOOLEAN]]
         /\ rootNodes = updateRoots(adjacencyList, n)
    /\ batchData = EmptyVec
    /\ call = NoCall
    /\ oob = {}
    /\ aborted = FALSE
    /\ NoExecutor
    /\ NoQueueCalls

\* Graph::hasCycle called by a client: visited and recStack are locals, no
\* member is assigned
HasCycle ==
    /\ ~aborted
    /\ call' = [op |-> "hasCycle", from |-> 0, to |-> 0,
                ret |-> hasCycle(adjacencyList, Size(nodes)), pre |-> PreState]
    /\ oob' = {}
    /\ UNCHANGED <<graphVars, batchData, aborted, execVars, queueVars>>

\* Graph::createsCycle called by a client, both ids in range: the matrix is
\* left as the call's last assignment leaves it, the root list is not
\* recomputed
CreatesCycle ==
    /\ ~aborted
    /\ \E from \in DOMAIN nodes, to \in DOMAIN nodes :
         \E r \in {createsCycle(adjacencyList, Size(nodes), from, to)} :
             /\ adjacencyList' = r.adjacencyList
             /\ call' = [op |-> "createsCycle", from |-> from, to |-> to,
                         ret |-> r.flag, pre |-> PreState]
    /\ oob' = {}
    /\ UNCHANGED <<nodes, rootNodes, batchData, aborted, execVars, queueVars>>

NextMatrix == HasCycle

\* hasCycle applied to every matrix
SpecMatrix == InitMatrix /\ [][NextMatrix]_vars

NextPublic == AddNode \/ AddEdge \/ CreatesCycle \/ HasCycle

\* a client of Graph's public interface
SpecPublic == Init /\ [][NextPublic]_vars

\* ------------------------------------------------------ Executor (pure)
\* the port names in the order std::map iterates them (ascending)
PortNames == <<"dataA", "dataB", "dataC", "divideout", "forwardout",
               "multiplyin", "multiplyout">>

Rank(name) == CHOOSE k \in 1..Len(PortNames) : PortNames[k] = name

\* begin() of a std::map with key set S; "" stands for end()
FirstKey(S) ==
    IF S = {} THEN ""
    ELSE CHOOSE f \in S : \A g \in S : Rank(f) <= Rank(g)

\* the key after f in a std::map with key set S
NextKey(S, f) == FirstKey({g \in S : Rank(g) > Rank(f)})

\* an empty std::unordered_map<std::string, MiniBatch>
EmptyMap == [f \in {} |-> <<>>]

\* std::unordered_map::operator[] used as an assignment target
MapPut(map, key, value) ==
    [f \in DOMAIN map \cup {key} |-> IF f = key THEN value ELSE map[f]]

\* Graph::addNode on a graph value
addNode(g, node) ==
    [nodes |-> PushBack(g.nodes, node),
     adjacencyList |-> addNodeAdjacency(g.adjacencyList, Size(g.nodes)),
     rootNodes |-> updateRoots(addNodeAdjacency(g.adjacencyList, Size(g.nodes)),
                               Size(g.nodes) + 1),
     batchData |-> addNodeBatchData(g.batchData)]

\* Graph::addEdge on a graph value
withEdge(g, from, to) ==
    [g EXCEPT !.adjacencyList =
                  addEdge(g.nodes, g.adjacencyList, g.rootNodes, from, to).adjacencyList,
              !.rootNodes =
                  addEdge(g.nodes, g.adjacencyList, g.rootNodes, from, to).rootNodes]

EmptyGraph == [nodes |-> EmptyVec, adjacencyList |-> EmptyVec,
               rootNodes |-> EmptyVec, batchData |-> EmptyVec]

\* the graph of the pipeline program: multiplyNode -> divideNode
PipelineGraph ==
    withEdge(addNode(addNode(EmptyGraph, multiplyNode), divideNode), 0, 1)

\* the same pipeline with divideNode added first
ReversedPipelineGraph ==
    withEdge(addNode(addNode(EmptyGraph, divideNode), multiplyNode), 1, 0)

\* a chain of depth three: multiplyNode -> divideNode -> forwardNode
ChainGraph ==
    withEdge(withEdge(addNode(addNode(addNode(EmptyGraph, multiplyNode),
                                      divideNode), forwardNode), 0, 1), 1, 2)

\* two roots feeding the same input port of one sink:
\* multiplyNode -> divideNode <- tripleNode
FanInGraph ==
    withEdge(withEdge(addNode(addNode(addNode(EmptyGraph, multiplyNode),
                                      tripleNode), divideNode), 0, 2), 1, 2)

\* a root that reads and writes the port "multiplyout", feeding divideNode
InPlaceGraph ==
    withEdge(addNode(addNode(EmptyGraph, rescaleNode), divideNode), 0, 1)

\* splitNode -> divideNode: the edge is accepted for "multiplyout", and both
\* nodes declare the output "divideout"
SharedOutputGraph ==
    withEdge(addNode(addNode(EmptyGraph, splitNode), divideNode), 0, 1)

\* the three-node graphs an Executor is constructed on
WideGraphs == {ChainGraph, FanInGraph}

\* the numbers of input batches an Executor is constructed with
BatchCounts == {0, 1, 2}

\* the numbers of cells a seeded MiniBatch holds
CellCounts == {0, 1, 2}

\* the graphs an Executor is constructed on
Graphs == {EmptyGraph, PipelineGraph, ReversedPipelineGraph}

\* the i-th cell (from 0) seeded for batch b, in tenths: every batch has its
\* own values, all multiples of ten
SeedCell(b, i) == 10 * (Cardinality(CellCounts) * b + i + 1)

\* the caller's inputBatches: numBatches maps, each giving k cells to every
\* input name of a root of g
InputBatches(g, numBatches, k) ==
    [b \in 0..(numBatches - 1) |->
        [name \in UNION {g.nodes[r].inputs : r \in Range(g.rootNodes)} |->
            [c \in 1..k |-> SeedCell(b, c - 1)]]]

\* Graph::initMiniBatches that creates the keys of the input ports only
initMiniBatches_InputsOnly(ns, bd, numBatches) ==
    [nodeId \in DOMAIN ns |->
        [b \in 0..(numBatches - 1) |->
            [f \in (IF nodeId < Size(bd) /\ b < Size(bd[nodeId])
                    THEN DOMAIN bd[nodeId][b] ELSE {})
                   \cup ns[nodeId].inputs |->
                IF nodeId < Size(bd) /\ b < Size(bd[nodeId])
                   /\ f \in DOMAIN bd[nodeId][b]
                THEN bd[nodeId][b][f]
                ELSE <<>>]]]

\* Graph::initMiniBatches that assigns MiniBatch() to every port slot, set
\* before or not
initMiniBatches_Reset(ns, bd, numBatches) ==
    [nodeId \in DOMAIN ns |->
        [b \in 0..(numBatches - 1) |->
            [f \in (IF nodeId < Size(bd) /\ b < Size(bd[nodeId])
                    THEN DOMAIN bd[nodeId][b] ELSE {})
                   \cup ns[nodeId].inputs \cup ns[nodeId].outputs |->
                <<>>]]]

\* Graph::initMiniBatches
initMiniBatches(ns, bd, numBatches) ==
    [nodeId \in DOMAIN ns |->
        [b \in 0..(numBatches - 1) |->
            [f \in (IF nodeId < Size(bd) /\ b < Size(bd[nodeId])
                    THEN DOMAIN bd[nodeId][b] ELSE {})
                   \cup ns[nodeId].inputs \cup ns[nodeId].outputs |->
                IF nodeId < Size(bd) /\ b < Size(bd[nodeId])
                   /\ f \in DOMAIN bd[nodeId][b]
                THEN bd[nodeId][b][f]
                ELSE <<>>]]]

\* Executor::initialize that seeds every node, root or not
initialize_EveryNode(ns, adj, bd, inputBatches) ==
    [nodeId \in DOMAIN ns |->
        [b \in DOMAIN inputBatches |->
            [f \in DOMAIN initMiniBatches(ns, bd, Size(inputBatches))[nodeId][b]
                   \cup DOMAIN inputBatches[b] |->
                IF f \in DOMAIN inputBatches[b]
                THEN inputBatches[b][f]
                ELSE initMiniBatches(ns, bd, Size(inputBatches))[nodeId][b][f]]]]

\* Executor::initialize: initMiniBatches, then every entry of the caller's
\* map for batch b is assigned into batch b of every root
initialize(ns, adj, bd, inputBatches) ==
    [nodeId \in DOMAIN ns |->
        [b \in DOMAIN inputBatches |->
            [f \in DOMAIN initMiniBatches(ns, bd, Size(inputBatches))[nodeId][b]
                   \cup (IF isRoot(adj, nodeId) THEN DOMAIN inputBatches[b] ELSE {}) |->
                IF isRoot(adj, nodeId) /\ f \in DOMAIN inputBatches[b]
                THEN inputBatches[b][f]
                ELSE initMiniBatches(ns, bd, Size(inputBatches))[nodeId][b][f]]]]

\* ThreadSafeQueue::push that puts the value in front
push_Front(queue, value) == <<value>> \o queue

\* ThreadSafeQueue::push
push(queue, value) == Append(queue, value)

\* ThreadSafeQueue::try_pop that copies the front without removing it
try_pop_Peek(queue) ==
    IF queue = <<>>
    THEN [ok |-> FALSE, value |-> NoTask, queue |-> queue]
    ELSE [ok |-> TRUE, value |-> Head(queue), queue |-> queue]

\* ThreadSafeQueue::try_pop that takes the value at the back
try_pop_Back(queue) ==
    IF queue = <<>>
    THEN [ok |-> FALSE, value |-> NoTask, queue |-> queue]
    ELSE [ok |-> TRUE, value |-> queue[Len(queue)],
          queue |-> SubSeq(queue, 1, Len(queue) - 1)]

\* ThreadSafeQueue::try_pop: the result, the value and the queue afterwards
try_pop(queue) ==
    IF queue = <<>>
    THEN [ok |-> FALSE, value |-> NoTask, queue |-> queue]
    ELSE [ok |-> TRUE, value |-> Head(queue), queue |-> Tail(queue)]

RECURSIVE initializeTaskQueueFrom(_, _, _, _, _)
initializeTaskQueueFrom(queue, size, numBatches, nodeId, batchId) ==
    IF nodeId >= size THEN queue
    ELSE IF batchId >= numBatches
         THEN initializeTaskQueueFrom(queue, size, numBatches, nodeId + 1, 0)
         ELSE initializeTaskQueueFrom(push(queue, <<nodeId, batchId>>),
                                      size, numBatches, nodeId, batchId + 1)

\* Executor::initializeTaskQueue that runs its loops a second time
initializeTaskQueue_Twice(queue, size, numBatches) ==
    initializeTaskQueueFrom(initializeTaskQueueFrom(queue, size, numBatches, 0, 0),
                            size, numBatches, 0, 0)

\* Executor::initializeTaskQueue with the inner loop stopping one batch early
initializeTaskQueue_SkipLast(queue, size, numBatches) ==
    initializeTaskQueueFrom(queue, size, numBatches - 1, 0, 0)

\* Executor::initializeTaskQueue
initializeTaskQueue(queue, size, numBatches) ==
    initializeTaskQueueFrom(queue, size, numBatches, 0, 0)

\* Graph::isReady that also asks every input slot to hold a cell
isReady_NonEmpty(ns, bd, nodeId, batchId) ==
    \A fieldName \in ns[nodeId].inputs :
        /\ fieldName \in DOMAIN bd[nodeId][batchId]
        /\ bd[nodeId][batchId][fieldName] # <<>>

\* Graph::isReady: every input name of the node is a key of the batch map
isReady(ns, bd, nodeId, batchId) ==
    \A fieldName \in ns[nodeId].inputs : fieldName \in DOMAIN bd[nodeId][batchId]

\* GraphNode::execute: the body reads the in-node inputs and assigns the
\* in-node outputs (cells in tenths)
execute(node, ins, outs) ==
    CASE node.body = "multiply" ->
           [outs EXCEPT !["multiplyout"] = ins["multiplyin"] * 2]
      [] node.body = "divide" ->
           [outs EXCEPT !["divideout"] = ins["multiplyout"] \div 10]
      [] node.body = "triple" ->
           [outs EXCEPT !["multiplyout"] = ins["multiplyin"] * 3]
      [] node.body = "forward" ->
           [outs EXCEPT !["forwardout"] = ins["divideout"]]
      [] node.body = "split" ->
           [outs EXCEPT !["multiplyout"] = ins["multiplyin"] * 2,
                        !["divideout"] = ins["multiplyin"]]
      [] node.body = "rescale" ->
           [outs EXCEPT !["multiplyout"] = ins["multiplyout"] * 2]
      [] OTHER -> outs

\* the cells held by the input slots of a node for a batch
RECURSIVE SumCells(_, _)
SumCells(slots, S) ==
    IF S = {} THEN 0
    ELSE LET f == CHOOSE x \in S : TRUE
         IN  Len(slots[f]) + SumCells(slots, S \ {f})

CellsHeld(ns, bd, nodeId, batchId) ==
    SumCells(bd[nodeId][batchId], ns[nodeId].inputs)

\* Executor::updateDependencies: the next (downstreamNodeId, outputField) the
\* loops copy, from position (ds, out) on; ds = size when there is none
RECURSIVE nextCopy(_, _, _, _, _)
nextCopy(ns, adj, nodeId, ds, out) ==
    IF ds >= Size(ns) THEN [ds |-> ds, out |-> ""]
    ELSE IF edgeExists(ns, adj, nodeId, ds) /\ out # ""
         THEN [ds |-> ds, out |-> out]
         ELSE nextCopy(ns, adj, nodeId, ds + 1, FirstKey(ns[nodeId].outputs))

\* ------------------------------------------------- the store of the Graph
\* the numbers of batches a client initialises the store with
StoreBatchCounts == {1, 2}

\* the store holds no cell
StoreBlank ==
    \A n \in DOMAIN batchData :
        \A b \in DOMAIN batchData[n] :
            \A f \in DOMAIN batchData[n][b] : batchData[n][b][f] = <<>>

\* Graph::initMiniBatches called by a client
InitMiniBatches ==
    /\ ~aborted
    /\ \E numBatches \in StoreBatchCounts :
         /\ batchData' = initMiniBatches(nodes, batchData, numBatches)
         /\ call' = [op |-> "initMiniBatches", from |-> numBatches,
                     to |-> numBatches, ret |-> TRUE, pre |-> PreState]
    /\ oob' = {}
    /\ UNCHANGED <<graphVars, aborted, execVars, queueVars>>

\* Graph::getMiniBatch(nodeId, batchId, fieldName).addData(cell) by a client,
\* for a slot of the store and a declared port; one cell is put per store
AddData ==
    /\ ~aborted
    /\ StoreBlank
    /\ \E nodeId \in DOMAIN batchData :
         \E batchId \in DOMAIN batchData[nodeId] :
           \E fieldName \in nodes[nodeId].inputs \cup nodes[nodeId].outputs :
             /\ batchData' = [batchData EXCEPT ![nodeId][batchId] =
                    MapPut(@, fieldName, <<SeedCell(batchId, 0)>>)]
             /\ call' = [op |-> "addData", from |-> nodeId, to |-> batchId,
                         ret |-> TRUE, pre |-> PreState]
    /\ oob' = {}
    /\ UNCHANGED <<graphVars, aborted, execVars, queueVars>>

NextStore == AddNode \/ InitMiniBatches \/ AddData

\* a client adding nodes, initialising the store and filling slots
SpecStore == Init /\ [][NextStore]_vars

\* --------------------------------------------------------- Executor actions
\* a client has built one of the graphs and constructed an Executor on it
Constructed(g, numBatches, k) ==
    /\ nodes = g.nodes
    /\ adjacencyList = g.adjacencyList
    /\ rootNodes = g.rootNodes
    /\ m_inputBatches = InputBatches(g, numBatches, k)
    /\ batchData = initialize(g.nodes, g.adjacencyList, g.batchData,
                              InputBatches(g, numBatches, k))
    /\ nodeInputs = [n \in DOMAIN g.nodes |-> [f \in g.nodes[n].inputs |-> 0]]
    /\ nodeOutputs = [n \in DOMAIN g.nodes |-> [f \in g.nodes[n].outputs |-> 0]]
    /\ execCount = [n \in DOMAIN g.nodes |-> [b \in 0..(numBatches - 1) |-> 0]]
    /\ call = NoCall
    /\ oob = {}
    /\ aborted = FALSE
    /\ m_taskQueue = <<>>
    /\ phase = "constructed"
    /\ worker = [w \in Workers |-> Idle]
    /\ published = {}
    /\ NoQueueCalls

InitRun ==
    \E g \in Graphs, numBatches \in BatchCounts, k \in CellCounts :
        Constructed(g, numBatches, k)

\* an Executor constructed on a three-node graph with one batch
InitWide ==
    \E g \in WideGraphs, k \in {0, 1} : Constructed(g, 1, k)

\* an Executor constructed on the graph whose root reads and writes one port
InitInPlace ==
    \E numBatches \in {1, 2}, k \in CellCounts :
        Constructed(InPlaceGraph, numBatches, k)

\* an Executor constructed on the graph whose two nodes share an output
\* name, with one batch
InitShared ==
    \E k \in CellCounts : Constructed(SharedOutputGraph, 1, k)

\* Executor::run up to the start of the threads: the queue is filled and
\* hardware_concurrency() threads, at least one, are started
Run ==
    /\ phase = "constructed"
    /\ m_taskQueue' = initializeTaskQueue(m_taskQueue, Size(nodes), Size(m_inputBatches))
    /\ \E threads \in Workers :
         worker' = [w \in Workers |->
                       IF w <= threads THEN [Idle EXCEPT !.pc = "pop"] ELSE Idle]
    /\ phase' = "running"
    /\ UNCHANGED <<queueVars, graphVars, batchData, call, oob, aborted, m_inputBatches,
                   nodeInputs, nodeOutputs, execCount, published>>

\* workerThread: the loop condition m_taskQueue.try_pop(task)
TryPop(w) ==
    /\ worker[w].pc = "pop"
    /\ \E r \in {try_pop(m_taskQueue)} :
         /\ m_taskQueue' = r.queue
         /\ worker' = [worker EXCEPT ![w] =
                IF r.ok THEN [Idle EXCEPT !.pc = "ready", !.task = r.value]
                ELSE [Idle EXCEPT !.pc = "exit"]]
    /\ UNCHANGED <<queueVars, graphVars, batchData, call, oob, aborted, m_inputBatches,
                   phase, nodeInputs, nodeOutputs, execCount, published>>

\* workerThread: the isReady test; the task is pushed back, or executeNode
\* is entered and its loop over the input fields starts
CheckReady(w) ==
    /\ worker[w].pc = "ready"
    /\ LET nodeId == worker[w].task[1]
           batchId == worker[w].task[2]
       IN  IF ~isReady(nodes, batchData, nodeId, batchId)
           THEN /\ m_taskQueue' = push(m_taskQueue, worker[w].task)
                /\ worker' = [worker EXCEPT ![w] = [Idle EXCEPT !.pc = "pop"]]
                /\ UNCHANGED execCount
           ELSE /\ worker' = [worker EXCEPT ![w].pc = "loop",
                                            ![w].field = FirstKey(nodes[nodeId].inputs),
                                            ![w].i = 0,
                                            ![w].inCells = CellsHeld(nodes, batchData,
                                                                     nodeId, batchId),
                                            ![w].outCells =
                                                [q \in nodes[nodeId].outputs |->
                                                    Len(batchData[nodeId][batchId][q])]]
                /\ execCount' = [execCount EXCEPT ![nodeId][batchId] = @ + 1]
                /\ UNCHANGED m_taskQueue
    /\ UNCHANGED <<queueVars, graphVars, batchData, call, oob, aborted, m_inputBatches,
                   phase, nodeInputs, nodeOutputs, published>>

\* the task of worker w has been propagated: updateDependencies returns
Propagated(w) ==
    /\ published' = published \cup {worker[w].task}
    /\ worker' = [worker EXCEPT ![w] = [Idle EXCEPT !.pc = "pop"]]

\* executeNode: the test i < inputMiniBatch.size() of the inner loop. Inside
\* the slot, cell i is handed to setInput; at its end the next input field
\* is taken; after the last field executeNode returns and updateDependencies
\* looks for its first copy.
LoopTest(w) ==
    /\ worker[w].pc = "loop"
    /\ LET nodeId == worker[w].task[1]
           batchId == worker[w].task[2]
           field == worker[w].field
           first == nextCopy(nodes, adjacencyList, nodeId, 0,
                             FirstKey(nodes[nodeId].outputs))
       IN  IF field = ""
           THEN /\ IF first.out = ""
                   THEN Propagated(w)
                   ELSE /\ worker' = [worker EXCEPT ![w].pc = "update",
                                                    ![w].i = first.ds,
                                                    ![w].out = first.out]
                        /\ UNCHANGED published
                /\ UNCHANGED nodeInputs
           ELSE IF worker[w].i < Len(batchData[nodeId][batchId][field])
                THEN /\ nodeInputs' = [nodeInputs EXCEPT ![nodeId][field] =
                            batchData[nodeId][batchId][field][worker[w].i + 1]]
                     /\ worker' = [worker EXCEPT ![w].pc = "execute"]
                     /\ UNCHANGED published
                ELSE /\ worker' = [worker EXCEPT
                            ![w].field = NextKey(nodes[nodeId].inputs, field),
                            ![w].i = 0]
                     /\ UNCHANGED <<nodeInputs, published>>
    /\ UNCHANGED <<queueVars, graphVars, batchData, call, oob, aborted, m_inputBatches,
                   m_taskQueue, phase, nodeOutputs, execCount>>

\* executeNode: node.execute()
Execute(w) ==
    /\ worker[w].pc = "execute"
    /\ LET nodeId == worker[w].task[1]
       IN  /\ nodeOutputs' = [nodeOutputs EXCEPT ![nodeId] =
                  execute(nodes[nodeId], nodeInputs[nodeId], nodeOutputs[nodeId])]
           /\ worker' = [worker EXCEPT ![w].pc = "emit",
                                       ![w].out = FirstKey(nodes[nodeId].outputs)]
    /\ UNCHANGED <<queueVars, graphVars, batchData, call, oob, aborted, m_inputBatches,
                   m_taskQueue, phase, nodeInputs, execCount, published>>

\* executeNode: outputMiniBatch.addData(node.getOutput(outputField.first))
\* for one output field; after the last one the inner loop increments i.
\* A slot is followed up to MaxCells cells.
Emit(w) ==
    /\ worker[w].pc = "emit"
    /\ LET nodeId == worker[w].task[1]
           batchId == worker[w].task[2]
           out == worker[w].out
           next == NextKey(nodes[nodeId].outputs, out)
       IN  IF out = ""
           THEN /\ worker' = [worker EXCEPT ![w].pc = "loop", ![w].i = @ + 1]
                /\ UNCHANGED batchData
           ELSE /\ Len(batchData[nodeId][batchId][out]) < MaxCells
                /\ batchData' = [batchData EXCEPT ![nodeId][batchId] =
                       MapPut(@, out,
                              Append(IF out \in DOMAIN @ THEN @[out] ELSE <<>>,
                                     nodeOutputs[nodeId][out]))]
                /\ worker' = [worker EXCEPT
                       ![w].pc = IF next = "" THEN "loop" ELSE "emit",
                       ![w].out = next,
                       ![w].i = IF next = "" THEN @ + 1 ELSE @]
    /\ UNCHANGED <<queueVars, graphVars, call, oob, aborted, m_inputBatches, m_taskQueue,
                   phase, nodeInputs, nodeOutputs, execCount, published>>

\* updateDependencies: inputMiniBatch = outputMiniBatch for one downstream
\* node and one output field; after the last copy the function returns
UpdateDependencies(w) ==
    /\ worker[w].pc = "update"
    /\ LET nodeId == worker[w].task[1]
           batchId == worker[w].task[2]
           downstreamNodeId == worker[w].i
           out == worker[w].out
           next == nextCopy(nodes, adjacencyList, nodeId, downstreamNodeId,
                            NextKey(nodes[nodeId].outputs, out))
       IN  /\ batchData' = [batchData EXCEPT ![downstreamNodeId][batchId] =
                  MapPut(@, out, batchData[nodeId][batchId][out])]
           /\ IF next.out = ""
              THEN Propagated(w)
              ELSE /\ worker' = [worker EXCEPT ![w].i = next.ds, ![w].out = next.out]
                   /\ UNCHANGED published
    /\ UNCHANGED <<queueVars, graphVars, call, oob, aborted, m_inputBatches, m_taskQueue,
                   phase, nodeInputs, nodeOutputs, execCount>>

\* Executor::run: every worker has been joined
Join ==
    /\ phase = "running"
    /\ \A w \in Workers : worker[w].pc \in {"exit", "idle"}
    /\ phase' = "returned"
    /\ UNCHANGED <<queueVars, graphVars, batchData, call, oob, aborted, m_inputBatches,
                   m_taskQueue, worker, nodeInputs, nodeOutputs, execCount,
                   published>>

\* worker w has popped a task and not finished with it
Holds(w) == worker[w].pc \in {"ready", "loop", "execute", "emit", "update"}

\* worker w is inside executeNode
Executing(w) == worker[w].pc \in {"loop", "execute", "emit"}

\* executeNode and updateDependencies take no lock. Two workers inside
\* executeNode for one node use the same GraphNode's inputs and outputs;
\* a worker inside updateDependencies assigns into the batch map of a
\* downstream node that another worker is executing for the same batch.
DataRace ==
    \E w1 \in Workers, w2 \in Workers :
        /\ w1 # w2
        /\ Executing(w2)
        /\ \/ Executing(w1) /\ worker[w1].task[1] = worker[w2].task[1]
           \/ /\ worker[w1].pc = "update"
              /\ worker[w1].i = worker[w2].task[1]
              /\ worker[w1].task[2] = worker[w2].task[2]

\* unsynchronised conflicting accesses are undefined: besides going on with
\* whichever value the interleaving left, the process may fault, and then
\* no thread takes another step and run() does not return
DataRaceFault ==
    /\ ~aborted
    /\ phase = "running"
    /\ DataRace
    /\ aborted' = TRUE
    /\ UNCHANGED <<queueVars, graphVars, batchData, call, oob, execVars>>

NextRun ==
    \/ /\ ~aborted
       /\ \/ Run
          \/ \E w \in Workers :
               TryPop(w) \/ CheckReady(w) \/ LoopTest(w) \/ Execute(w) \/ Emit(w)
                   \/ UpdateDependencies(w)
          \/ Join
    \/ DataRaceFault

\* an Executor constructed on a built graph, then run() with NumWorkers threads
SpecRun == InitRun /\ [][NextRun]_vars

\* the same run() on the three-node graphs
SpecWide == InitWide /\ [][NextRun]_vars

\* one step of the thread running workerThread as worker w
WorkerStep(w) ==
    /\ ~aborted
    /\ \/ TryPop(w) \/ CheckReady(w) \/ LoopTest(w) \/ Execute(w) \/ Emit(w)
       \/ UpdateDependencies(w)

\* run() under a fair scheduler: the caller's thread goes on (Run, Join) and
\* every started worker thread that can take a step eventually takes one;
\* nothing forces or forbids a fault
SpecRunFair ==
    /\ InitRun
    /\ [][NextRun]_vars
    /\ WF_vars(~aborted /\ Run)
    /\ \A w \in Workers : WF_vars(WorkerStep(w))
    /\ WF_vars(~aborted /\ Join)

\* the same run() on the graph whose root reads and writes one port
SpecInPlace == InitInPlace /\ [][NextRun]_vars

\* the same run() on the graph whose two nodes share an output name
SpecShared == InitShared /\ [][NextRun]_vars

\* ------------------------------------------------- ThreadSafeQueue clients
\* everything but the queue and its clients
otherVars == <<nodes, adjacencyList, rootNodes, batchData, call, oob, aborted,
               m_inputBatches, phase, worker, nodeInputs, nodeOutputs,
               execCount, published>>

\* m_cond.notify_one() that wakes nobody
notify_one_Lost(waiters) == {0}

\* m_cond.notify_one(): the threads it may unblock, 0 when none is waiting
notify_one(waiters) == IF waiters = {} THEN {0} ELSE waiters

\* the predicate of m_cond.wait in wait_and_pop
queueNotEmpty(queue) == queue # <<>>

\* a client thread calls push with a fresh value, try_pop or wait_and_pop
\* and comes to the construction of its lock
Call(t, ops) ==
    /\ caller[t].pc = "idle"
    /\ calls < MaxCalls
    /\ \E op \in ops :
         caller' = [caller EXCEPT ![t] =
             [pc |-> "lock", op |-> op, waited |-> FALSE,
              value |-> IF op = "push" THEN calls + 1 ELSE 0]]
    /\ calls' = calls + 1
    /\ UNCHANGED <<otherVars, m_taskQueue, m_mutex, m_cond, pushLog, popLog>>

\* std::lock_guard / std::unique_lock constructor, and the re-acquisition
\* of the mutex by a thread that wait() has unblocked
Lock(t) ==
    /\ caller[t].pc = "lock"
    /\ m_mutex = 0
    /\ m_mutex' = t
    /\ caller' = [caller EXCEPT ![t].pc = "locked"]
    /\ UNCHANGED <<otherVars, m_taskQueue, m_cond, pushLog, popLog, calls>>

\* ThreadSafeQueue::push under the lock: m_queue.push, notify_one, unlock
PushLocked(t) ==
    /\ caller[t].pc = "locked" /\ caller[t].op = "push"
    /\ m_taskQueue' = push(m_taskQueue, caller[t].value)
    /\ pushLog' = Append(pushLog, caller[t].value)
    /\ \E u \in notify_one(m_cond) :
         /\ m_cond' = m_cond \ {u}
         /\ caller' = [c \in Callers |->
                IF c = t THEN [caller[t] EXCEPT !.pc = "idle"]
                ELSE IF c = u THEN [caller[u] EXCEPT !.pc = "lock"]
                ELSE caller[c]]
    /\ m_mutex' = 0
    /\ UNCHANGED <<otherVars, popLog, calls>>

\* ThreadSafeQueue::try_pop under the lock
TryPopLocked(t) ==
    /\ caller[t].pc = "locked" /\ caller[t].op = "try_pop"
    /\ \E r \in {try_pop(m_taskQueue)} :
         /\ m_taskQueue' = r.queue
         /\ popLog' = IF r.ok THEN Append(popLog, r.value) ELSE popLog
         /\ caller' = [caller EXCEPT ![t].pc = "idle",
                                     ![t].value = IF r.ok THEN r.value ELSE 0]
    /\ m_mutex' = 0
    /\ UNCHANGED <<otherVars, m_cond, pushLog, calls>>

\* ThreadSafeQueue::wait_and_pop under the lock: while the predicate is
\* false wait() releases the mutex and blocks; when it is true the front is
\* moved out and popped
WaitAndPopLocked(t) ==
    /\ caller[t].pc = "locked" /\ caller[t].op = "wait_and_pop"
    /\ IF queueNotEmpty(m_taskQueue)
       THEN /\ m_taskQueue' = Tail(m_taskQueue)
            /\ popLog' = Append(popLog, Head(m_taskQueue))
            /\ caller' = [caller EXCEPT ![t].pc = "idle",
                                        ![t].value = Head(m_taskQueue)]
            /\ UNCHANGED m_cond
       ELSE /\ m_cond' = m_cond \cup {t}
            /\ caller' = [caller EXCEPT ![t].pc = "waiting", ![t].waited = TRUE]
            /\ UNCHANGED <<m_taskQueue, popLog>>
    /\ m_mutex' = 0
    /\ UNCHANGED <<otherVars, pushLog, calls>>

\* condition_variable::wait may unblock without a notification
SpuriousWake(t) ==
    /\ caller[t].pc = "waiting"
    /\ m_cond' = m_cond \ {t}
    /\ caller' = [caller EXCEPT ![t].pc = "lock"]
    /\ UNCHANGED <<otherVars, m_taskQueue, m_mutex, pushLog, popLog, calls>>

NextQueue ==
    \E t \in Callers :
        \/ Call(t, {"push", "try_pop", "wait_and_pop"})
        \/ Lock(t)
        \/ PushLocked(t)
        \/ TryPopLocked(t)
        \/ WaitAndPopLocked(t)
        \/ SpuriousWake(t)

\* threads making any mix of calls on one ThreadSafeQueue
SpecQueue == Init /\ [][NextQueue]_vars

NextWait ==
    \E t \in Callers :
        \/ Call(t, {"push", "wait_and_pop"})
        \/ Lock(t)
        \/ PushLocked(t)
        \/ WaitAndPopLocked(t)
        \/ SpuriousWake(t)

\* producers and blocking consumers only. A thread holding the mutex runs
\* on, and a thread contending for the mutex that is free again and again
\* gets it in the end; a spurious wake-up is never due.
SpecWait ==
    /\ Init
    /\ [][NextWait]_vars
    /\ \A t \in Callers :
          SF_vars(Lock(t)) /\ WF_vars(PushLocked(t)) /\ WF_vars(WaitAndPopLocked(t))

\* ------------------------------------------------- properties of the Graph
RECURSIVE Closure(_, _)
Closure(adj, S) ==
    LET T == S \cup {j \in DOMAIN adj : \E i \in S : adj[i][j]}
    IN  IF T = S THEN S ELSE Closure(adj, T)

\* j is reachable from i along one or more edges
Reaches(adj, i, j) == j \in Closure(adj, {k \in DOMAIN adj : adj[i][k]})

HasDirectedCycle(adj) == \E i \in DOMAIN adj : Reaches(adj, i, i)

IOCompatible(ns, i, j) == ns[i].outputs \cap ns[j].inputs # {}

EdgeCount == Cardinality({e \in (DOMAIN nodes) \X (DOMAIN nodes) :
                             adjacencyList[e[1]][e[2]]})

InRangeAddEdge ==
    call.op = "addEdge" /\ call.from < Size(nodes) /\ call.to < Size(nodes)

\* C1: after any sequence of addNode and addEdge calls with in-range ids,
\* hasCycle() returns false and the adjacency matrix holds no directed cycle.
C1_NoCycle ==
    /\ ~hasCycle(adjacencyList, Size(nodes))
    /\ ~HasDirectedCycle(adjacencyList)

\* an IO-compatible edge that would close a cycle of two or more edges has
\* been rejected
C1_Witness ==
    /\ InRangeAddEdge /\ ~call.ret
    /\ call.from # call.to
    /\ Reaches(adjacencyList, call.to, call.from)
    /\ IOCompatible(nodes, call.from, call.to)
    /\ EdgeCount >= 2

\* C2: addEdge(from, to) with in-range ids returns true iff from # to, from
\* is not reachable from to along the edges present before the call, and
\* some output name of from is an input name of to; when it returns true
\* edgeExists(from, to) holds afterwards.
C2_AddEdgeResult ==
    InRangeAddEdge =>
        /\ call.ret <=>
              /\ call.from # call.to
              /\ ~Reaches(call.pre.adjacencyList, call.to, call.from)
              /\ IOCompatible(call.pre.nodes, call.from, call.to)
        /\ call.ret => edgeExists(nodes, adjacencyList, call.from, call.to)

\* an edge has been accepted into a graph that already held another edge
C2_Witness ==
    /\ InRangeAddEdge /\ call.ret
    /\ ~call.pre.adjacencyList[call.from][call.to]
    /\ EdgeCount >= 2

\* C3: when addEdge returns false the node list, every entry of the
\* adjacency matrix and the root list are as they were before the call.
C3_RejectedUnchanged ==
    (InRangeAddEdge /\ ~call.ret) =>
        /\ nodes = call.pre.nodes
        /\ adjacencyList = call.pre.adjacencyList
        /\ rootNodes = call.pre.rootNodes

\* an edge has been rejected for its port names alone, in a graph with edges
C3_Witness ==
    /\ InRangeAddEdge /\ ~call.ret
    /\ call.from # call.to
    /\ ~Reaches(adjacencyList, call.to, call.from)
    /\ ~IOCompatible(nodes, call.from, call.to)
    /\ EdgeCount >= 1

\* C4: addEdge with from >= size() or to >= size() returns false and
\* accesses no container out of bounds on the way.
C4_OutOfRangeRejectedSafely ==
    (call.op = "addEdge" /\ (call.from >= Size(nodes) \/ call.to >= Size(nodes))) =>
        /\ ~call.ret
        /\ oob = {}
        /\ ~aborted

\* the roots in ascending index order
RECURSIVE AscendingVec(_)
AscendingVec(S) ==
    IF S = {} THEN EmptyVec
    ELSE LET m == CHOOSE x \in S : \A y \in S : y <= x
         IN  PushBack(AscendingVec(S \ {m}), m)

\* C5: getRootNodes() is the ascending list of the nodes whose adjacency
\* column is all false, and i is in it iff isRoot(i).
C5_RootList ==
    /\ rootNodes = AscendingVec({i \in DOMAIN nodes :
                                   \A k \in DOMAIN nodes : ~adjacencyList[k][i]})
    /\ \A i \in DOMAIN nodes : (i \in Range(rootNodes)) <=> isRoot(adjacencyList, i)

\* two roots, one of them with an outgoing edge, and a node that is no root
C5_Witness ==
    /\ Size(rootNodes) >= 2
    /\ \E i \in DOMAIN nodes : i \notin Range(rootNodes)
    /\ \E i \in Range(rootNodes) : \E j \in DOMAIN nodes : adjacencyList[i][j]

\* C6: the adjacency matrix has size() rows of size() columns each, every
\* diagonal entry is false, and addEdge(i, i) returns false.
C6_SquareNoSelfEdge ==
    /\ DOMAIN adjacencyList = 0..(Size(nodes) - 1)
    /\ \A i \in DOMAIN adjacencyList :
         /\ DOMAIN adjacencyList[i] = 0..(Size(nodes) - 1)
         /\ ~adjacencyList[i][i]
    /\ (InRangeAddEdge /\ call.from = call.to) => ~call.ret

\* a self-edge whose port names match has been rejected in a graph of
\* several nodes
C6_Witness ==
    /\ InRangeAddEdge /\ call.from = call.to /\ ~call.ret
    /\ IOCompatible(nodes, call.from, call.from)
    /\ Size(nodes) >= 2

\* C7: every recorded edge i->j has an output name of i among the input
\* names of j.
C7_EdgesIOCompatible ==
    \A i \in DOMAIN nodes, j \in DOMAIN nodes :
        adjacencyList[i][j] => IOCompatible(nodes, i, j)

\* edges are recorded and the last call was rejected though it closed no cycle
C7_Witness ==
    /\ EdgeCount >= 2
    /\ InRangeAddEdge /\ ~call.ret
    /\ ~Reaches(adjacencyList, call.to, call.from) /\ call.from # call.to

\* ---------------------------------------------- properties of the Executor
\* the (nodeId, batchId) pairs of a run
Tasks == {t \in (DOMAIN nodes) \X (DOMAIN m_inputBatches) : TRUE}

QueueCount(t) == Cardinality({k \in 1..Len(m_taskQueue) : m_taskQueue[k] = t})

HolderCount(t) == Cardinality({w \in Workers : Holds(w) /\ worker[w].task = t})

\* C8: during run() executeNode is entered at most once per (nodeId, batchId)
\* and exactly once by the time run() returns; no two workers hold the same
\* pair; a pair is in the queue only while it has not been executed.
C8_ExactlyOnce ==
    (phase \in {"running", "returned"}) =>
        \A t \in Tasks :
            /\ execCount[t[1]][t[2]] <= 1
            /\ (phase = "returned") => (execCount[t[1]][t[2]] = 1)
            /\ QueueCount(t) + HolderCount(t) <= 1
            /\ (QueueCount(t) > 0) => (execCount[t[1]][t[2]] = 0)

\* two workers are inside executeNode at once, for two batches of one node,
\* while other tasks wait in the queue
C8_Witness ==
    \E w1 \in Workers, w2 \in Workers :
        /\ w1 # w2 /\ Executing(w1) /\ Executing(w2)
        /\ worker[w1].task[1] = worker[w2].task[1]
        /\ worker[w1].task[2] # worker[w2].task[2]
        /\ Len(m_taskQueue) >= 2

\* C9: when run() returns the task queue is empty, no worker holds a task,
\* and executeNode followed by updateDependencies has completed for every
\* one of the size x N tasks.
C9_AllDoneAtReturn ==
    (phase = "returned") =>
        /\ m_taskQueue = <<>>
        /\ \A w \in Workers : ~Holds(w)
        /\ Cardinality(Tasks) = Size(nodes) * Size(m_inputBatches)
        /\ \A t \in Tasks : execCount[t[1]][t[2]] = 1 /\ t \in published

\* run() has returned from a two-node, two-batch run that more than one
\* worker took part in
C9_Witness ==
    /\ phase = "returned"
    /\ Size(nodes) = 2 /\ Size(m_inputBatches) = 2
    /\ Cardinality(published) = 4
    /\ Cardinality({w \in Workers : worker[w].pc = "exit"}) >= 2

\* C10: for every edge n->m and batch b, executeNode(m, b) is entered only
\* after updateDependencies(n, b) has returned; a task for m popped before
\* that is requeued, not executed.
C10_ExecuteAfterPublish ==
    \A n \in DOMAIN nodes, m \in DOMAIN nodes, b \in DOMAIN m_inputBatches :
        (adjacencyList[n][m] /\ execCount[m][b] > 0) => (<<n, b>> \in published)

\* C11: isReady(nodeId, batchId) is true exactly when every input port slot
\* of the node exists in the batch map and holds at least one cell; an
\* existing but empty slot makes it false.
C11_ReadyIffNonEmpty ==
    (phase \in {"constructed", "running", "returned"}) =>
        \A n \in DOMAIN nodes, b \in DOMAIN m_inputBatches :
            isReady(nodes, batchData, n, b)
                <=> \A p \in nodes[n].inputs :
                        /\ p \in DOMAIN batchData[n][b]
                        /\ Len(batchData[n][b][p]) >= 1

\* the index of the node with the given body in the graph being run
NodeWithBody(body) == CHOOSE n \in DOMAIN nodes : nodes[n].body = body

\* the body of a node applied to one cell presented on its input port in
\* (the value left on its output port out)
Applied(node, in, out, cell) ==
    execute(node, [f \in node.inputs |-> IF f = in THEN cell ELSE 0],
            [f \in node.outputs |-> 0])[out]

\* what the pipeline makes of one seeded cell
Piped(cell) ==
    Applied(divideNode, "multiplyout", "divideout",
            Applied(multiplyNode, "multiplyin", "multiplyout", cell))

\* the graph being run is the two-node multiply/divide pipeline
IsPipeline ==
    /\ Size(nodes) = 2
    /\ {nodes[n] : n \in DOMAIN nodes} = {multiplyNode, divideNode}

\* C12: for the pipeline M->D seeded with k cells for batch b, when run() has
\* returned the sink slot store[D][b]["divideout"] holds exactly k cells,
\* the i-th being D's body applied to M's body applied to the i-th seeded
\* cell, for either index order of M and D.
C12_PipelineResult ==
    (phase = "returned" /\ IsPipeline) =>
        \A b \in DOMAIN m_inputBatches :
            batchData[NodeWithBody("divide")][b]["divideout"]
                = [c \in 1..Len(m_inputBatches[b]["multiplyin"]) |->
                      Piped(m_inputBatches[b]["multiplyin"][c])]

\* the cells that the seeds of batch b alone can put on port p
Lineage(b, p) ==
    LET seeds == {m_inputBatches[b]["multiplyin"][c] :
                     c \in 1..Len(m_inputBatches[b]["multiplyin"])}
    IN  CASE p = "multiplyin" -> seeds
          [] p = "multiplyout" ->
               {Applied(multiplyNode, "multiplyin", "multiplyout", x) : x \in seeds}
          [] p = "divideout" -> {Piped(x) : x \in seeds}
          [] OTHER -> {}

\* C13: with two or more batches, when run() has returned every cell stored
\* for batch b stems from the cells seeded for batch b; the seeds of another
\* batch never show in it.
C13_BatchIsolation ==
    (phase = "returned" /\ IsPipeline /\ Size(m_inputBatches) >= 2) =>
        \A n \in DOMAIN nodes, b \in DOMAIN m_inputBatches :
            \A p \in DOMAIN batchData[n][b] :
                \A c \in 1..Len(batchData[n][b][p]) :
                    batchData[n][b][p][c] \in Lineage(b, p)

\* every root input port was seeded with at least one cell
RootsSeeded ==
    \A r \in Range(rootNodes), b \in DOMAIN m_inputBatches :
        \A p \in nodes[r].inputs :
            p \in DOMAIN m_inputBatches[b] /\ Len(m_inputBatches[b][p]) >= 1

\* every input port name of a non-root node is an output of a predecessor
InputsSupplied ==
    \A n \in DOMAIN nodes :
        ~isRoot(adjacencyList, n) =>
            \A p \in nodes[n].inputs :
                \E m \in DOMAIN nodes : adjacencyList[m][n] /\ p \in nodes[m].outputs

\* C14: when run() has returned, every input port slot of every node and
\* batch holds at least one cell, provided every root input port was seeded
\* with a cell and every input name of a non-root node is supplied by a
\* predecessor; chains of any depth.
C14_InputsFilled ==
    (phase = "returned" /\ RootsSeeded /\ InputsSupplied) =>
        \A n \in DOMAIN nodes, b \in DOMAIN m_inputBatches :
            \A p \in nodes[n].inputs : Len(batchData[n][b][p]) >= 1

\* C15: for every edge n->m, batch b and port q in outputs(n) and inputs(m),
\* from the return of updateDependencies(n, b) on, store[m][b][q] equals
\* store[n][b][q], also when m has several predecessors.
C15_PropagatedEqual ==
    \A n \in DOMAIN nodes, m \in DOMAIN nodes, b \in DOMAIN m_inputBatches :
        (adjacencyList[n][m] /\ <<n, b>> \in published) =>
            \A q \in nodes[n].outputs \cap nodes[m].inputs :
                batchData[m][b][q] = batchData[n][b][q]

\* executeNode(n, b) has been entered and has returned
Executed(n, b) ==
    /\ execCount[n][b] >= 1
    /\ \A w \in Workers : ~(Executing(w) /\ worker[w].task = <<n, b>>)

\* C16: once executeNode(n, b) has returned, no step of any worker changes
\* a slot store[n][b][p] of an input or output port p of n.
C16_FrozenAfterExecute ==
    [][\A n \in DOMAIN nodes, b \in DOMAIN m_inputBatches :
          (phase = "running" /\ Executed(n, b)) =>
              \A p \in nodes[n].inputs \cup nodes[n].outputs :
                  batchData'[n][b][p] = batchData[n][b][p]]_vars

\* worker w is in updateDependencies, at the assignment into store[m][b][q]
Assigning(w, m, b, q) ==
    /\ worker[w].pc = "update"
    /\ worker[w].i = m /\ worker[w].task[2] = b /\ worker[w].out = q

\* worker w is in executeNode(m, b), in the loop over the cells of slot q
Reading(w, m, b, q) ==
    /\ worker[w].pc \in {"loop", "execute", "emit"}
    /\ worker[w].task = <<m, b>> /\ worker[w].field = q

\* C17: in no reachable state is one worker assigning store[m][b][q] in
\* updateDependencies while another reads that slot in executeNode(m, b) or
\* assigns it from updateDependencies of a second predecessor of m.
C17_SlotWritesSerialized ==
    \A w1 \in Workers, w2 \in Workers :
        \A m \in DOMAIN nodes, b \in DOMAIN m_inputBatches, q \in Range(PortNames) :
            (w1 # w2 /\ Assigning(w1, m, b, q)) =>
                ~(Reading(w2, m, b, q) \/ Assigning(w2, m, b, q))

\* C18: the queue is a linearizable FIFO under any mix of push, try_pop and
\* wait_and_pop callers: the values pushed, in the order their pushes took
\* the mutex, are the values popped so far followed by the queue, so none
\* is lost, none is returned twice, and pops are served in push order.
C18_LinearizableFIFO ==
    /\ pushLog = popLog \o m_taskQueue
    /\ \A i \in 1..Len(pushLog), j \in 1..Len(pushLog) :
           (pushLog[i] = pushLog[j]) => (i = j)
    /\ \A t \in Callers :
           (caller[t].pc = "idle" /\ caller[t].value # 0
                /\ caller[t].op \in {"try_pop", "wait_and_pop"}) =>
               \E i \in 1..Len(popLog) : popLog[i] = caller[t].value

\* values were pushed in an order other than the order of the calls and
\* have been popped by a try_pop and by a wait_and_pop caller
C18_Witness ==
    /\ Len(popLog) >= 2
    /\ popLog[1] > popLog[2]
    /\ \E t \in Callers, u \in Callers :
           /\ caller[t].pc = "idle" /\ caller[t].op = "try_pop"
           /\ caller[t].value # 0
           /\ caller[u].pc = "idle" /\ caller[u].op = "wait_and_pop"
           /\ caller[u].value # 0

\* the numbers of push and wait_and_pop calls made so far
PushCalls == Cardinality({t \in Callers : caller[t].op = "push" /\ caller[t].pc # "idle"})
                 + Len(pushLog)

InWaitAndPop(t) == caller[t].op = "wait_and_pop" /\ caller[t].pc # "idle"

WaitCalls == Cardinality({t \in Callers : InWaitAndPop(t)}) + Len(popLog)

\* C19: wait_and_pop returns only with a value taken from the queue, and
\* once as many pushes as wait_and_pop calls have been made and no further
\* call follows, every caller inside wait_and_pop eventually returns.
C19_WaitAndPopReturns ==
    /\ [](\A t \in Callers :
            (caller[t].op = "wait_and_pop" /\ caller[t].pc = "idle") =>
                (caller[t].value # 0
                     /\ \E i \in 1..Len(popLog) : popLog[i] = caller[t].value))
    /\ (calls = MaxCalls /\ PushCalls >= WaitCalls)
           ~> (\A t \in Callers : ~InWaitAndPop(t))

\* two callers that had blocked in wait_and_pop have returned with the two
\* values pushed afterwards
C19_Witness ==
    \E t \in Callers, u \in Callers :
        /\ t # u
        /\ caller[t].pc = "idle" /\ caller[t].op = "wait_and_pop"
        /\ caller[t].waited /\ caller[t].value # 0
        /\ caller[u].pc = "idle" /\ caller[u].op = "wait_and_pop"
        /\ caller[u].waited /\ caller[u].value # 0

\* run() has filled the queue and started its threads; none has popped yet
BeforeFirstPop ==
    /\ phase = "running"
    /\ \A w \in Workers : worker[w].pc \in {"pop", "idle"}
    /\ \A t \in Tasks : execCount[t[1]][t[2]] = 0

\* C20: at the start of run(), before any worker pops, the task queue holds
\* exactly size x N entries, every (nodeId, batchId) with nodeId < size and
\* batchId < N once; with an empty graph or N = 0 the queue is empty
\* throughout and run() returns without having executed anything.
C20_InitialQueue ==
    /\ BeforeFirstPop =>
           /\ Len(m_taskQueue) = Size(nodes) * Size(m_inputBatches)
           /\ \A t \in Tasks : QueueCount(t) = 1
           /\ \A k \in 1..Len(m_taskQueue) : m_taskQueue[k] \in Tasks
    /\ (phase \in {"running", "returned"}
            /\ (Size(nodes) = 0 \/ Size(m_inputBatches) = 0)) =>
           /\ m_taskQueue = <<>>
           /\ \A w \in Workers : ~Holds(w)
           /\ published = {}
           /\ \A n \in DOMAIN nodes :
                  \A p \in DOMAIN nodeOutputs[n] : nodeOutputs[n][p] = 0

\* run() has just queued the four tasks of a two-node, two-batch run in
\* ascending order
C20_Witness ==
    /\ BeforeFirstPop
    /\ m_taskQueue = <<<<0, 0>>, <<0, 1>>, <<1, 0>>, <<1, 1>>>>

\* C21: after the Executor is constructed with N input batches, every entry
\* (name, MiniBatch) of the caller's map for batch b is installed at
\* store[r][b][name] of every root r; every slot of a non-root node and
\* every declared port slot of a root that the caller's map does not name is
\* an empty MiniBatch.
C21_SeededStore ==
    (phase = "constructed") =>
        /\ Size(batchData) = Size(nodes)
        /\ \A n \in DOMAIN nodes :
               /\ Size(batchData[n]) = Size(m_inputBatches)
               /\ \A b \in DOMAIN m_inputBatches :
                      /\ nodes[n].inputs \cup nodes[n].outputs
                             \subseteq DOMAIN batchData[n][b]
                      /\ (n \in Range(rootNodes)) =>
                             \A name \in DOMAIN m_inputBatches[b] :
                                 /\ name \in DOMAIN batchData[n][b]
                                 /\ batchData[n][b][name] = m_inputBatches[b][name]
                      /\ \A p \in DOMAIN batchData[n][b] :
                             (n \notin Range(rootNodes)
                                  \/ p \notin DOMAIN m_inputBatches[b]) =>
                                 batchData[n][b][p] = <<>>

\* an Executor has been constructed on the pipeline with divideNode first
\* and two batches of two cells: the root is node 1
C21_Witness ==
    /\ phase = "constructed"
    /\ IsPipeline /\ rootNodes = (0 :> 1)
    /\ Size(m_inputBatches) = 2
    /\ batchData[1][1]["multiplyin"] = <<SeedCell(1, 0), SeedCell(1, 1)>>
    /\ batchData[0][1]["multiplyout"] = <<>>

\* the store has one entry per node, numBatches maps per entry, and every
\* map has a key for every port of its node
Shaped(ns, bd, numBatches) ==
    /\ Size(bd) = Size(ns)
    /\ \A n \in DOMAIN ns :
           /\ Size(bd[n]) = numBatches
           /\ \A b \in DOMAIN bd[n] :
                  ns[n].inputs \cup ns[n].outputs \subseteq DOMAIN bd[n][b]

\* C22: immediately after initMiniBatches(numBatches) the store has exactly
\* size() node entries, each with exactly numBatches batch maps, and every
\* batch map of node i has a key for every input and output port of node i.
C22_ShapeAfterInit ==
    (call.op = "initMiniBatches") => Shaped(nodes, batchData, call.from)

\* initMiniBatches(1) has run on a store that had two maps for node 0 and no
\* entry for node 1
C22_Witness ==
    /\ call.op = "initMiniBatches" /\ call.from = 1
    /\ Size(nodes) = 2
    /\ Size(call.pre.batchData) = 1
    /\ Size(call.pre.batchData[0]) = 2

\* C23: initMiniBatches(N) called on a store that initMiniBatches(N) has
\* shaped changes neither the shape nor the content of any slot: cells
\* already stored are preserved.
C23_InitIdempotent ==
    /\ (call.op = "initMiniBatches"
            /\ Shaped(call.pre.nodes, call.pre.batchData, call.from)) =>
           batchData = call.pre.batchData
    /\ \A numBatches \in StoreBatchCounts :
           initMiniBatches(nodes, initMiniBatches(nodes, batchData, numBatches),
                           numBatches)
               = initMiniBatches(nodes, batchData, numBatches)

\* initMiniBatches(2) has run a second time on a store holding a cell
C23_Witness ==
    /\ call.op = "initMiniBatches" /\ call.from = 2
    /\ Shaped(call.pre.nodes, call.pre.batchData, 2)
    /\ ~StoreBlank

\* C24: addNode called after initMiniBatches(N) gives the store one entry
\* for the new node, so that store.size = nodes.size still holds, and every
\* node that was there keeps exactly N batch maps.
C24_AddNodeKeepsShape ==
    \A numBatches \in StoreBatchCounts :
        (call.op = "addNode"
             /\ Size(call.pre.batchData) >= 1
             /\ Shaped(call.pre.nodes, call.pre.batchData, numBatches)) =>
            /\ Size(batchData) = Size(nodes)
            /\ \A n \in DOMAIN call.pre.nodes : Size(batchData[n]) = numBatches

\* C25: executeNode(n, b) invokes the body once per cell of each input slot
\* and appends one cell to each output slot per invocation: when it returns,
\* each output slot has grown by the number of cells the input slots of n
\* held for batch b.
C25_OneCellPerInputCell ==
    \A w \in Workers :
        (worker[w].pc = "loop" /\ worker[w].field = "") =>
            \A q \in nodes[worker[w].task[1]].outputs :
                Len(batchData[worker[w].task[1]][worker[w].task[2]][q])
                    = worker[w].outCells[q] + worker[w].inCells

\* C26: hasCycle() returns true exactly when the matrix it ran on contains a
\* directed cycle (a self-loop counts), for every matrix over up to MaxNodes
\* nodes, and the adjacency matrix and the root list are as before the call.
C26_HasCycleExact ==
    call.op = "hasCycle" =>
        /\ call.ret = HasDirectedCycle(call.pre.adjacencyList)
        /\ adjacencyList = call.pre.adjacencyList
        /\ rootNodes = call.pre.rootNodes

\* hasCycle returned true on a matrix whose only cycle is 1 -> 2 -> 1, which
\* a search from node 0 never enters
C26_Witness ==
    /\ call.op = "hasCycle"
    /\ call.ret
    /\ Size(nodes) = 3
    /\ \A i, j \in DOMAIN nodes :
         adjacencyList[i][j] <=> (<<i, j>> \in {<<1, 2>>, <<2, 1>>})

\* C27: after a client's createsCycle(from, to) on in-range ids, whether or
\* not the edge from -> to was recorded before, the adjacency matrix equals
\* the matrix before the call and the stored root list is the root list of
\* the matrix.
C27_CreatesCycleRollsBack ==
    call.op = "createsCycle" =>
        /\ adjacencyList = call.pre.adjacencyList
        /\ \A from, to \in DOMAIN nodes :
             edgeExists(nodes, adjacencyList, from, to)
                 = edgeExists(call.pre.nodes, call.pre.adjacencyList, from, to)
        /\ rootNodes = updateRoots(adjacencyList, Size(nodes))

\* the slot store[m][b][p] differs between the two states of a step: its
\* key appears or disappears, or its cells change
SlotChanged(m, b, p) ==
    \/ (p \in DOMAIN batchData[m][b]) # (p \in DOMAIN batchData'[m][b])
    \/ /\ p \in DOMAIN batchData[m][b]
       /\ p \in DOMAIN batchData'[m][b]
       /\ batchData[m][b][p] # batchData'[m][b][p]

\* the slots the task of worker w may write where w stands: inside
\* executeNode the slots of its own node and batch, inside
\* updateDependencies the slots of a direct successor, for its batch, named
\* like one of its node's output ports
MayWrite(w, m, b, p) ==
    LET n == worker[w].task[1]
    IN  /\ b = worker[w].task[2]
        /\ \/ Executing(w) /\ m = n
           \/ /\ worker[w].pc = "update"
              /\ adjacencyList[n][m]
              /\ p \in nodes[n].outputs

\* C28: every step of a worker processing task (n, b) changes only slots
\* store[n][b][*] while it is inside executeNode, and only slots
\* store[m][b][q] with A[n][m] true and q an output port name of n while it
\* is inside updateDependencies; slots of another batch, of a node that is
\* neither n nor a direct successor, and slots of a successor not named by an
\* output of n keep their value, and no step without a worker changes a slot.
C28_WriteFrame ==
    [][/\ (\A w \in Workers : worker'[w] = worker[w]) => batchData' = batchData
       /\ \A w \in Workers :
            worker'[w] # worker[w] =>
                \A m \in DOMAIN batchData :
                    \A b \in DOMAIN batchData[m] :
                        \A p \in Range(PortNames) :
                            SlotChanged(m, b, p) => MayWrite(w, m, b, p)]_vars

\* with two batches, the task (n, 0) has been propagated into a successor m
\* whose slot for batch 1 is still empty, and m has appended to its own
\* output slot for batch 0
C28_Witness ==
    /\ Size(m_inputBatches) = 2
    /\ \E n \in DOMAIN nodes, m \in DOMAIN nodes :
         /\ adjacencyList[n][m]
         /\ <<n, 0>> \in published
         /\ <<n, 1>> \notin published
         /\ \E q \in nodes[n].outputs :
              /\ batchData[m][0][q] = batchData[n][0][q]
              /\ batchData[m][0][q] # <<>>
              /\ batchData[m][1][q] = <<>>
         /\ \E q \in nodes[m].outputs : batchData[m][0][q] # <<>>

\* the queue as initializeTaskQueue fills it for the graph and batch count
InitialQueue == initializeTaskQueue(<<>>, Size(nodes), Size(m_inputBatches))

\* a worker has popped the task and stands before the isReady test
AtReadyTest(task) == \E w \in Workers : worker[w].pc = "ready" /\ worker[w].task = task

C31_BoundedByEntryCells ==
    \A w \in Workers :
        Executing(w) =>
            \A q \in nodes[worker[w].task[1]].outputs :
                LET grown == Len(batchData[worker[w].task[1]][worker[w].task[2]][q])
                                 - worker[w].outCells[q]
                IN  /\ grown <= worker[w].inCells
                    /\ (worker[w].pc = "loop" /\ worker[w].field = "")
                           => grown = worker[w].inCells

\* worker w is inside one invocation of its node: setInput has been called
\* and execute or a getOutput is still to come
Invoking(w) ==
    \/ worker[w].pc = "execute"
    \/ worker[w].pc = "emit" /\ worker[w].out # ""

\* C32: no two workers are inside an invocation of the same node at once for
\* different batches: while one is between setInput and getOutput for
\* (n, b), no other is between setInput and getOutput for (n, b').
C32_PortMapsExclusive ==
    \A w1 \in Workers, w2 \in Workers :
        (w1 # w2 /\ Invoking(w1) /\ Invoking(w2)
             /\ worker[w1].task[1] = worker[w2].task[1])
            => worker[w1].task[2] = worker[w2].task[2]

\* C33: an output slot store[m][b][q], q an output port name of m, is
\* changed only by a step of a worker inside executeNode(m, b); no step of
\* updateDependencies of a predecessor changes it, also when the
\* predecessor declares an output of the same name. So after run() has
\* returned the slot holds only cells m's own executeNode(m, b) appended.
C33_OnlyOwnerWritesOutputs ==
    [][\A m \in DOMAIN nodes :
           \A b \in DOMAIN batchData[m] :
               \A q \in nodes[m].outputs :
                   SlotChanged(m, b, q) =>
                       \E w \in Workers :
                           /\ Executing(w)
                           /\ worker[w].task = <<m, b>>
                           /\ worker'[w] # worker[w]]_vars

\* run() started exactly one worker thread
OneWorker ==
    /\ worker[1].pc # "idle"
    /\ \A w \in Workers \ {1} : worker[w].pc = "idle"

\* executeNode has been entered for the task
Started(t) == execCount[t[1]][t[2]] >= 1

\* the order initializeTaskQueue's loops push the tasks in
EnqueuedBefore(t1, t2) ==
    t1[1] < t2[1] \/ (t1[1] = t2[1] /\ t1[2] < t2[2])

====
